---- MODULE Spec2Model ----
(* A model of tracklab's TrackerState (src/tracklab/datastruct/tracker_state.py): *)
(* the per-video checkpoint store of a multi-stage pipeline.  One TrackerState    *)
(* object is alive at a time; the zip archives on disk outlive it.                *)
(*                                                                                *)
(* A DataFrame is a record [none, columns, rows]: none = TRUE stands for Python's *)
(* None, columns is the frame's column set, rows its set of rows.  A row is       *)
(* [video_id, gen]: gen identifies the batch that supplied the row's data.        *)
(* A zip archive is [exists, entries]: entries is the archive's directory, a      *)
(* sequence of [name, columns, rows] (a zip directory may list a name twice).     *)
EXTENDS Integers, Sequences, FiniteSets, TLC

VARIABLES
    constructed,            \* a TrackerState object exists
    modules,                \* the stage list given to __init__
    load_file, save_file,   \* self.load_file, self.save_file
    json_file,              \* self.json_file
    load_from_groundtruth,  \* self.load_from_groundtruth
    input_columns, output_columns, forget_columns, load_columns,
    detections_pred,        \* self.detections_pred
    video_id,               \* self.video_id
    zf,                     \* self.zf: [none, load, save]
    archive,                \* the zip files on disk
    openHandles,            \* the ZipFile objects that are open
    scope,                  \* position of the caller: "out" or "in" the with-block
    last,                   \* the operation that ran last
    raised,                 \* the exception it raised, or "none"
    ret,                    \* the DataFrame it returned
    nextGen,                \* the number of the next batch the pipeline produces
    drops                   \* the __exit__ calls of the object that dropped a column

vars == <<constructed, modules, load_file, save_file, json_file,
          load_from_groundtruth, input_columns, output_columns, forget_columns,
          load_columns, detections_pred, video_id, zf, archive, openHandles,
          scope, last, raised, ret, nextGen, drops>>

----
(* Bounds *)

\* the number of batches the pipeline produces
MaxGen == 2

\* the longest stage list of the schema-resolution specification
MaxStages == 2

\* drops counts up to Several
Several == 2

----
(* Values *)

None == "None"

Videos == {"A", "B"}

Files == {"f1", "f2"}

IdColumns == {"image_id", "video_id"}

Columns == IdColumns \cup {"x", "y", "z"}

NoneDF == [none |-> TRUE, columns |-> {}, rows |-> {}]

DF(c, r) == [none |-> FALSE, columns |-> c, rows |-> r]

\* pd.DataFrame()
EmptyDF == DF({}, {})

\* f"{video_id}.pkl"
PklName(v) == v \o ".pkl"

SummaryName == "summary.json"

NoFile == [exists |-> FALSE, entries |-> <<>>]

ZipOf(es) == [exists |-> TRUE, entries |-> es]

\* tracking_set.detections_gt
detections_gt == DF(IdColumns \cup {"x"}, {[video_id |-> v, gen |-> 0] : v \in Videos})

\* the paths a TrackerState is given: f1 is the run's checkpoint, f2 an archive an
\* earlier run left behind
LoadFiles == {None, "f1"}

SaveFiles == {None, "f1"}

\* an archive written by an earlier run that stored no summary.json
LegacyZip == ZipOf(<<[name |-> PklName("A"), columns |-> IdColumns \cup {"x"},
                      rows |-> {[video_id |-> "A", gen |-> 0]}]>>)

\* a pipeline stage: its input_columns, output_columns and forget_columns
Stage(i, o, f) == [input_columns |-> i, output_columns |-> o, forget_columns |-> f]

\* the stage lists of the lifecycle specification
ModuleLists ==
    { <<>>,
      <<Stage({}, {"x"}, {"z"})>> }

\* the stages of the schema-resolution specification
SchemaStages ==
    { Stage({}, {c}, {}) : c \in Columns } \cup
    { Stage({c, d}, {}, {}) : c \in Columns, d \in Columns }

RECURSIVE SeqsUpTo(_, _)
SeqsUpTo(S, n) ==
    IF n = 0 THEN { <<>> }
    ELSE LET shorter == SeqsUpTo(S, n - 1)
         IN  shorter \cup { Append(s, e) : s \in shorter, e \in S }

SchemaModuleLists == SeqsUpTo(SchemaStages, MaxStages)

\* the column sets of the batches the pipeline produces
BatchColumns == { IdColumns \cup {"x"}, IdColumns \cup {"x", "z"} }

----
(* zipfile *)

\* ZipFile.namelist()
namelist(z) == { z.entries[i].name : i \in 1..Len(z.entries) }

\* ZipFile.open(name, "r"): the directory's last entry of that name
getentry(z, n) ==
    LET idx == { i \in 1..Len(z.entries) : z.entries[i].name = n }
    IN  z.entries[CHOOSE i \in idx : \A j \in idx : j <= i]

\* ZipFile.open(name, "w") and a write: one more directory entry
writeentry(z, n, c, r) ==
    ZipOf(Append(z.entries, [name |-> n, columns |-> c, rows |-> r]))

----
(* TrackerState.__init__ *)

\* lines 42-53: the columns found in the load archive, or the exception
ReadPersisted(lf) ==
    IF lf = None THEN [raised |-> "none", columns |-> {}]
    ELSE IF ~archive[lf].exists THEN [raised |-> "FileNotFoundError", columns |-> {}]
    ELSE IF SummaryName \in namelist(archive[lf])
         THEN [raised |-> "none", columns |-> getentry(archive[lf], SummaryName).columns]
    ELSE IF Len(archive[lf].entries) = 0 THEN [raised |-> "IndexError", columns |-> {}]
    ELSE [raised |-> "none", columns |-> archive[lf].entries[1].columns]

\* the loop with line 58 not subtracting the outputs of the earlier stages
RECURSIVE ResolveStages_NoSubtract(_, _)
ResolveStages_NoSubtract(mods, n) ==
    IF n = 0 THEN [input_columns |-> {}, output_columns |-> {}, forget_columns |-> {}]
    ELSE LET acc == ResolveStages_NoSubtract(mods, n - 1)
         IN  [input_columns  |-> acc.input_columns \cup mods[n].input_columns,
              output_columns |-> acc.output_columns \cup mods[n].output_columns,
              forget_columns |-> acc.forget_columns \cup mods[n].forget_columns]

\* lines 54-60: the loop over the stages, up to stage n
RECURSIVE ResolveStages(_, _)
ResolveStages(mods, n) ==
    IF n = 0 THEN [input_columns |-> {}, output_columns |-> {}, forget_columns |-> {}]
    ELSE LET acc == ResolveStages(mods, n - 1)
         IN  [input_columns  |-> acc.input_columns \cup
                                   (mods[n].input_columns \ acc.output_columns),
              output_columns |-> acc.output_columns \cup mods[n].output_columns,
              forget_columns |-> acc.forget_columns \cup mods[n].forget_columns]

\* lines 62-64 without the two key columns
ResolveLoadColumns_NoKeys(p, ins, outs) == (p \ outs) \cup ins

\* lines 62-64
ResolveLoadColumns(p, ins, outs) == ((p \ outs) \cup ins) \cup IdColumns

\* no object: the fields of a failed construction
NoObject(exc, mods) ==
    /\ constructed' = FALSE
    /\ modules' = mods
    /\ load_file' = None
    /\ save_file' = None
    /\ json_file' = None
    /\ load_from_groundtruth' = FALSE
    /\ input_columns' = {}
    /\ output_columns' = {}
    /\ forget_columns' = {}
    /\ load_columns' = {}
    /\ detections_pred' = NoneDF
    /\ video_id' = None
    /\ zf' = [none |-> TRUE, load |-> None, save |-> None]
    /\ raised' = exc

\* TrackerState(tracking_set, load_file, json_file, save_file, load_from_groundtruth, modules)
init(lf, jf, sf, gt, mods) ==
    LET p   == ReadPersisted(lf)
        res == ResolveStages(mods, Len(mods))
        lc  == ResolveLoadColumns(p.columns, res.input_columns, res.output_columns)
    IN  /\ scope = "out"
        /\ last' = "__init__"
        /\ ret' = NoneDF
        /\ drops' = 0
        /\ UNCHANGED <<archive, openHandles, scope, nextGen>>
        /\ IF p.raised # "none" THEN NoObject(p.raised, mods)
           \* line 73: load_detections_pred_from_json reads self.do_tracking (line 133),
           \* an attribute no line of the class sets
           ELSE IF jf # None THEN NoObject("AttributeError", mods)
           \* line 83: detections_gt[load_columns]
           ELSE IF gt /\ ~(lc \subseteq detections_gt.columns) THEN NoObject("KeyError", mods)
           ELSE /\ constructed' = TRUE
                /\ modules' = mods
                /\ load_file' = lf
                /\ save_file' = sf
                /\ json_file' = jf
                /\ load_from_groundtruth' = gt
                /\ input_columns' = res.input_columns
                /\ output_columns' = res.output_columns
                /\ forget_columns' = res.forget_columns
                /\ load_columns' = lc
                /\ detections_pred' = IF gt THEN DF(lc, detections_gt.rows) ELSE NoneDF
                /\ video_id' = None
                /\ zf' = [none |-> TRUE, load |-> None, save |-> None]
                /\ raised' = "none"

Construct ==
    \E lf \in LoadFiles, sf \in SaveFiles, mods \in ModuleLists :
        init(lf, None, sf, FALSE, mods)

\* a run without archives, on ground truth or not
ConstructTable ==
    \E gt \in BOOLEAN, mods \in ModuleLists :
        init(None, None, None, gt, mods)

\* a run over every combination of paths: none, one, two archives, one archive twice
ConstructHandles ==
    \E lf \in Files \cup {None}, sf \in SaveFiles :
        init(lf, None, sf, FALSE, <<>>)

\* the schema-resolution specification constructs one object per run
ConstructSchema ==
    /\ last = "start"
    /\ \E lf \in Files \cup {None}, mods \in SchemaModuleLists :
           init(lf, None, None, FALSE, mods)

\* a directory of annotation files holding at least one *.json file
JsonFiles == {None, "anns"}

\* stage lists of the runs over the three sources; the last one asks for a column
\* that no stage produces
SourceModuleLists == ModuleLists \cup { <<Stage({"y"}, {}, {})>> }

\* a run that reads: from imported annotations, from ground truth, from the earlier
\* run's archive, or from nothing
ConstructSources ==
    \E lf \in {None, "f2"}, jf \in JsonFiles, gt \in BOOLEAN, mods \in SourceModuleLists :
        init(lf, jf, None, gt, mods)

----
(* TrackerState.__call__ *)

Other(op) ==
    /\ last' = op
    /\ UNCHANGED <<constructed, modules, load_file, save_file, json_file,
                   load_from_groundtruth, input_columns, output_columns,
                   forget_columns, load_columns>>

call(v) ==
    /\ constructed
    /\ Other("__call__")
    /\ video_id' = v
    /\ ret' = NoneDF
    /\ raised' = "none"
    /\ UNCHANGED <<detections_pred, zf, archive, openHandles, scope, nextGen, drops>>

Call == \E v \in Videos : call(v)

----
(* TrackerState.__enter__ *)

\* a ZipFile object: the local variable of __enter__ it was bound to, its file and
\* mode, and whether self.zf holds it
Handle(v, f, m, h) == [var |-> v, file |-> f, mode |-> m, held |-> h]

\* line 169
SameFile == load_file # None /\ load_file = save_file

\* the with-statement calls __enter__ on entering the block
Enter ==
    /\ constructed
    /\ scope = "out"
    /\ Other("__enter__")
    /\ scope' = "in"
    \* lines 148-167 open load_zf and save_zf whatever the paths are; line 177
    \* stores neither of them when the paths are the same
    /\ openHandles' = openHandles \cup
          (IF load_file = None THEN {}
           ELSE {Handle("load_zf", load_file, "r", ~SameFile)}) \cup
          (IF save_file = None THEN {}
           ELSE {Handle("save_zf", save_file, "a", ~SameFile)}) \cup
          (IF SameFile THEN {Handle("zf", load_file, "a", TRUE)} ELSE {})
    /\ zf' = IF SameFile
             THEN [none |-> FALSE, load |-> "zf", save |-> "zf"]
             ELSE [none |-> FALSE,
                   load |-> IF load_file = None THEN None ELSE "load_zf",
                   save |-> IF save_file = None THEN None ELSE "save_zf"]
    \* ZipFile(save_file, mode="a") creates a missing file
    /\ archive' = IF save_file # None /\ ~archive[save_file].exists
                  THEN [archive EXCEPT ![save_file] = ZipOf(<<>>)]
                  ELSE archive
    /\ ret' = NoneDF
    /\ raised' = "none"
    /\ UNCHANGED <<detections_pred, video_id, nextGen, drops>>

\* the open handles self.zf refers to
Referenced == { h \in openHandles : h.held }

\* a ZipFile nothing refers to any more is closed when the runtime finalizes it:
\* at once, later or never
Finalize ==
    /\ \E h \in openHandles \ Referenced : openHandles' = openHandles \ {h}
    /\ UNCHANGED <<constructed, modules, load_file, save_file, json_file,
                   load_from_groundtruth, input_columns, output_columns,
                   forget_columns, load_columns, detections_pred,
                   video_id, zf, archive, scope, last, raised, ret, nextGen, drops>>

----
(* TrackerState.__exit__ *)

\* a drop that leaves the frame as it is
drop_Nothing(df, cols) == df

\* a drop that acts at one __exit__ of the object only
drop_Once(df, cols) == IF drops = 0 THEN DF(df.columns \ cols, df.rows) ELSE df

\* DataFrame.drop(columns=..., errors="ignore")
drop(df, cols) == DF(df.columns \ cols, df.rows)

\* lines 257-260: ZipFile.close() of the handles in the two slots
Closed(hs, z) == { h \in hs : ~(h.held /\ h.var \in ({z.load, z.save} \ {None})) }

exit(exc) ==
    /\ constructed
    /\ Other("__exit__")
    /\ ret' = NoneDF
    /\ IF zf.none
       THEN \* self.zf is None: self.zf["load"] raises
            /\ raised' = "TypeError"
            /\ UNCHANGED <<detections_pred, video_id, zf, openHandles, scope, drops>>
       ELSE /\ raised' = "none"
            /\ openHandles' = Closed(openHandles, zf)
            /\ zf' = [none |-> FALSE, load |-> None, save |-> None]
            /\ video_id' = None
            /\ detections_pred' = IF detections_pred.none THEN detections_pred
                                  ELSE drop(detections_pred, forget_columns)
            /\ drops' = IF detections_pred' # detections_pred /\ drops < Several
                        THEN drops + 1 ELSE drops
            /\ scope' = "out"
    /\ UNCHANGED <<archive, nextGen>>

\* exc: the with-block ended by an exception
Exit == \E exc \in BOOLEAN : exit(exc)

----
(* TrackerState.update *)

\* the next batch of the pipeline: a detection of video v with columns c
Batch(c, v) == DF(c, {[video_id |-> v, gen |-> nextGen]})

\* the pipeline hands over detections of the video it is processing
OfCurrentVideo(v) == video_id \in {None, v}

\* pd.concat([a, b])
concat(a, b) == DF(a.columns \cup b.columns, a.rows \cup b.rows)

\* lines 193-201 without the removal of lines 196-198
updated_Append(df, vid, detections) ==
    IF df.none THEN detections ELSE concat(df, detections)

\* lines 193-201
updated(df, vid, detections) ==
    IF df.none THEN detections
    ELSE concat(DF(df.columns, { r \in df.rows : r.video_id # vid }), detections)

update(detections) ==
    /\ constructed
    /\ Other("update")
    /\ detections_pred' = updated(detections_pred, video_id, detections)
    /\ ret' = NoneDF
    /\ raised' = "none"
    /\ nextGen' = nextGen + 1
    /\ UNCHANGED <<video_id, zf, archive, openHandles, scope, drops>>

Update ==
    /\ nextGen <= MaxGen
    /\ \E c \in BatchColumns, v \in Videos :
           OfCurrentVideo(v) /\ update(Batch(c, v))

----
(* TrackerState.save *)

\* lines 207-226 without the test of line 213
saved_Overwrite(df) ==
    IF save_file = None THEN [raised |-> "none", archive |-> archive]
    ELSE IF video_id = None \/ df.none THEN [raised |-> "AssertionError", archive |-> archive]
    ELSE IF zf.none THEN [raised |-> "TypeError", archive |-> archive]
    ELSE IF zf.save = None THEN [raised |-> "AttributeError", archive |-> archive]
    ELSE LET z0 == archive[save_file]
             z1 == IF SummaryName \in namelist(z0) THEN z0
                   ELSE writeentry(z0, SummaryName, df.columns, {})
             z2 == writeentry(z1, PklName(video_id), df.columns,
                              { r \in df.rows : r.video_id = video_id })
         IN  [raised |-> "none", archive |-> [archive EXCEPT ![save_file] = z2]]

\* lines 207-226 without the summary of lines 214-219
saved_NoSummary(df) ==
    IF save_file = None THEN [raised |-> "none", archive |-> archive]
    ELSE IF video_id = None \/ df.none THEN [raised |-> "AssertionError", archive |-> archive]
    ELSE IF zf.none THEN [raised |-> "TypeError", archive |-> archive]
    ELSE IF zf.save = None THEN [raised |-> "AttributeError", archive |-> archive]
    ELSE IF PklName(video_id) \in namelist(archive[save_file])
         THEN [raised |-> "none", archive |-> archive]
    ELSE [raised |-> "none",
          archive |-> [archive EXCEPT ![save_file] =
                         writeentry(archive[save_file], PklName(video_id), df.columns,
                                    { r \in df.rows : r.video_id = video_id })]]

\* lines 207-226 on table df: the exception raised and the archives afterwards
saved(df) ==
    IF save_file = None THEN [raised |-> "none", archive |-> archive]
    ELSE IF video_id = None \/ df.none THEN [raised |-> "AssertionError", archive |-> archive]
    ELSE IF zf.none THEN [raised |-> "TypeError", archive |-> archive]
    ELSE IF zf.save = None THEN [raised |-> "AttributeError", archive |-> archive]
    ELSE IF PklName(video_id) \in namelist(archive[save_file])
         THEN [raised |-> "none", archive |-> archive]
    ELSE LET z0 == archive[save_file]
             z1 == IF SummaryName \in namelist(z0) THEN z0
                   ELSE writeentry(z0, SummaryName, df.columns, {})
             z2 == writeentry(z1, PklName(video_id), df.columns,
                              { r \in df.rows : r.video_id = video_id })
         IN  [raised |-> "none", archive |-> [archive EXCEPT ![save_file] = z2]]

Save ==
    /\ constructed
    /\ Other("save")
    /\ LET s == saved(detections_pred)
       IN  /\ raised' = s.raised
           /\ archive' = s.archive
    /\ ret' = NoneDF
    /\ UNCHANGED <<detections_pred, video_id, zf, openHandles, scope, nextGen, drops>>

----
(* TrackerState.on_video_loop_end *)

\* lines 189-190 in the other order: save() before update(), which is not reached
\* when save() raises
on_video_loop_end_SaveFirst(detections) ==
    /\ constructed
    /\ Other("on_video_loop_end")
    /\ LET s == saved(detections_pred)
       IN  /\ raised' = s.raised
           /\ archive' = s.archive
           /\ detections_pred' = IF s.raised = "none"
                                 THEN updated(detections_pred, video_id, detections)
                                 ELSE detections_pred
    /\ ret' = NoneDF
    /\ nextGen' = nextGen + 1
    /\ UNCHANGED <<video_id, zf, openHandles, scope, drops>>

on_video_loop_end(detections) ==
    /\ constructed
    /\ Other("on_video_loop_end")
    /\ LET df == updated(detections_pred, video_id, detections)
           s  == saved(df)
       IN  /\ detections_pred' = df
           /\ raised' = s.raised
           /\ archive' = s.archive
    /\ ret' = NoneDF
    /\ nextGen' = nextGen + 1
    /\ UNCHANGED <<video_id, zf, openHandles, scope, drops>>

OnVideoLoopEnd ==
    /\ nextGen <= MaxGen
    /\ \E c \in BatchColumns, v \in Videos :
           OfCurrentVideo(v) /\ on_video_loop_end(Batch(c, v))

\* the end-of-video hook as the only writer, on batches of one shape
EndOfVideo ==
    /\ nextGen <= MaxGen
    /\ \E v \in Videos :
           OfCurrentVideo(v) /\ on_video_loop_end(Batch(IdColumns \cup {"x"}, v))

----
(* TrackerState.load *)

\* df[df.video_id == v]
ofvideo(df, v) == DF(df.columns, { r \in df.rows : r.video_id = v })

\* lines 235-251, without the assertion of line 234
loaded_NoAssert ==
    IF load_from_groundtruth
    THEN [raised |-> "none", ret |-> ofvideo(detections_pred, video_id),
          table |-> detections_pred]
    ELSE [raised |-> "none", ret |-> EmptyDF, table |-> detections_pred]

\* lines 234-251 without the test of line 244: ZipFile.open of a missing name raises
loaded_MissRaises ==
    IF video_id = None
    THEN [raised |-> "AssertionError", ret |-> NoneDF, table |-> detections_pred]
    ELSE IF load_from_groundtruth
    THEN [raised |-> "none", ret |-> ofvideo(detections_pred, video_id),
          table |-> detections_pred]
    ELSE IF load_file = None
    THEN [raised |-> "none", ret |-> EmptyDF, table |-> detections_pred]
    ELSE IF PklName(video_id) \in namelist(archive[load_file])
    THEN LET e == getentry(archive[load_file], PklName(video_id))
         IN  [raised |-> "none", ret |-> DF(load_columns, e.rows),
              table |-> updated(detections_pred, video_id, DF(e.columns, e.rows))]
    ELSE [raised |-> "KeyError", ret |-> NoneDF, table |-> detections_pred]

\* lines 234-251: the exception raised, the frame returned, the table afterwards
loaded ==
    IF video_id = None
    THEN [raised |-> "AssertionError", ret |-> NoneDF, table |-> detections_pred]
    ELSE IF json_file # None
    THEN \* self.json_detections_pred is set on line 132 only, which no object passes
         [raised |-> "AttributeError", ret |-> NoneDF, table |-> detections_pred]
    ELSE IF load_from_groundtruth
    THEN [raised |-> "none", ret |-> ofvideo(detections_pred, video_id),
          table |-> detections_pred]
    ELSE IF load_file = None
    THEN [raised |-> "none", ret |-> EmptyDF, table |-> detections_pred]
    ELSE IF zf.none
    THEN [raised |-> "TypeError", ret |-> NoneDF, table |-> detections_pred]
    ELSE IF zf.load = None
    THEN [raised |-> "AttributeError", ret |-> NoneDF, table |-> detections_pred]
    ELSE IF PklName(video_id) \in namelist(archive[load_file])
    THEN LET e == getentry(archive[load_file], PklName(video_id))
             video_detections == DF(e.columns, e.rows)
             table == updated(detections_pred, video_id, video_detections)
         IN  IF load_columns \subseteq e.columns
             THEN [raised |-> "none", ret |-> DF(load_columns, e.rows), table |-> table]
             \* video_detections[self.load_columns] with a column the entry lacks
             ELSE [raised |-> "KeyError", ret |-> NoneDF, table |-> table]
    ELSE [raised |-> "none", ret |-> EmptyDF, table |-> detections_pred]

Load ==
    /\ constructed
    /\ Other("load")
    /\ raised' = loaded.raised
    /\ ret' = loaded.ret
    /\ detections_pred' = loaded.table
    /\ UNCHANGED <<video_id, zf, archive, openHandles, scope, nextGen, drops>>

----
(* Initial state: no object yet; f1 does not exist, f2 is the earlier run's archive *)

\* before the first TrackerState is constructed

Start ==
    /\ constructed = FALSE
    /\ modules = <<>>
    /\ load_file = None
    /\ save_file = None
    /\ json_file = None
    /\ load_from_groundtruth = FALSE
    /\ input_columns = {}
    /\ output_columns = {}
    /\ forget_columns = {}
    /\ load_columns = {}
    /\ detections_pred = NoneDF
    /\ video_id = None
    /\ zf = [none |-> TRUE, load |-> None, save |-> None]
    /\ openHandles = {}
    /\ scope = "out"
    /\ last = "start"
    /\ raised = "none"
    /\ ret = NoneDF
    /\ nextGen = 1
    /\ drops = 0

Init ==
    /\ Start
    /\ archive = [f \in Files |-> IF f = "f1" THEN NoFile ELSE LegacyZip]

\* the operations of the object; the finalization of leaked handles, which touches
\* neither the table nor the archives, is left to SpecHandles
Next ==
    \/ Construct
    \/ Call
    \/ Enter
    \/ Exit
    \/ Update
    \/ Save
    \/ OnVideoLoopEnd
    \/ Load

Spec == Init /\ [][Next]_vars

\* schema resolution: f2 is any archive an earlier run may have left behind
SummaryZips ==
    { ZipOf(<<[name |-> SummaryName, columns |-> c, rows |-> {}]>>) :
        c \in SUBSET {"image_id", "x", "y", "z"} }

InitSchema ==
    /\ Start
    /\ archive \in { [f \in Files |-> IF f = "f1" THEN NoFile ELSE a] :
                       a \in SummaryZips \cup {LegacyZip} }

NextSchema == ConstructSchema

\* runs without archives
NextTable ==
    \/ ConstructTable
    \/ Call
    \/ Enter
    \/ Exit
    \/ Update
    \/ Save
    \/ OnVideoLoopEnd
    \/ Load

SpecTable == Init /\ [][NextTable]_vars

\* the life of the archive handles
NextHandles ==
    \/ ConstructHandles
    \/ Call
    \/ Enter
    \/ Finalize
    \/ Exit
    \/ EndOfVideo

SpecHandles == Init /\ [][NextHandles]_vars

SpecSchema == InitSchema /\ [][NextSchema]_vars

\* runs that only read
NextSources ==
    \/ ConstructSources
    \/ Call
    \/ Enter
    \/ Exit
    \/ Update
    \/ Load

SpecSources == Init /\ [][NextSources]_vars

----
(* Schema resolution *)

\* the columns found in the persisted source of the object
PersistedColumns ==
    IF load_file = None THEN {}
    ELSE LET es == archive[load_file].entries
             summaries == { i \in 1..Len(es) : es[i].name = SummaryName }
         IN  IF summaries # {} THEN UNION { es[i].columns : i \in summaries }
             ELSE es[1].columns

OutputsBefore(i) == UNION { modules[j].output_columns : j \in 1..(i - 1) }

\* C4: the constructor computes output_columns as the union of all stage outputs,
\* input_columns as the union over the stages of the stage's inputs minus the outputs
\* of strictly earlier stages, and load_columns as (P minus output_columns) union
\* input_columns union {image_id, video_id}, P being the columns found in the persisted
\* source ({} without a load path); load_columns always holds image_id and video_id.
C4_SchemaResolution ==
    (constructed /\ last = "__init__") =>
        /\ output_columns = UNION { modules[i].output_columns : i \in 1..Len(modules) }
        /\ input_columns = UNION { modules[i].input_columns \ OutputsBefore(i) :
                                     i \in 1..Len(modules) }
        /\ load_columns = ((PersistedColumns \ output_columns) \cup input_columns)
                             \cup {"image_id", "video_id"}
        /\ {"image_id", "video_id"} \subseteq load_columns

\* a stage outputs image_id, a later stage asks for it, and the archive lists it
C4_Witness ==
    /\ constructed
    /\ last = "__init__"
    /\ load_file = "f2"
    /\ "image_id" \in PersistedColumns
    /\ modules = <<Stage({}, {"image_id"}, {}), Stage({"image_id", "y"}, {}, {})>>
    /\ "image_id" \notin input_columns

\* stages S1 (outputs {x}) then S2 (inputs {x, y})
S1S2(x, y) == <<Stage({}, {x}, {}), Stage({x, y}, {}, {})>>

\* C5, as stated: for S1 (outputs {x}) followed by S2 (inputs {x, y}), for any two
\* column names x and y and any persisted column set, load_columns excludes x and
\* includes y.
C5_AsStated ==
    \A x \in Columns : \A y \in Columns \ {x} :
        (constructed /\ modules = S1S2(x, y)) =>
            (x \notin load_columns /\ y \in load_columns)

\* C5, amended: the same for any x other than image_id and video_id.
C5_Monotonicity ==
    \A x \in Columns \ IdColumns : \A y \in Columns \ {x} :
        (constructed /\ modules = S1S2(x, y)) =>
            (x \notin load_columns /\ y \in load_columns)

\* the archive lists x, S1 supplies it and S2 asks for x and y
C5_Witness ==
    /\ constructed
    /\ modules = S1S2("x", "y")
    /\ load_file = "f2"
    /\ "x" \in PersistedColumns
    /\ "y" \notin PersistedColumns
----
(* The save archive *)

\* the directory of no archive lists a name twice
NoDuplicateKeys ==
    \A f \in Files : \A i, j \in 1..Len(archive[f].entries) :
        archive[f].entries[i].name = archive[f].entries[j].name => i = j

\* save() is reached, by itself or through the end-of-video hook, inside the
\* with-block for a selected video whose entry the save archive already holds
ReSave ==
    /\ \/ Save /\ ~detections_pred.none
       \/ \E c \in BatchColumns, v \in Videos : on_video_loop_end(Batch(c, v))
    /\ scope = "in"
    /\ save_file # None
    /\ video_id # None
    /\ PklName(video_id) \in namelist(archive[save_file])

\* C1: the save archive never holds two entries for one video_id, and save() for a
\* selected video whose entry the save archive already holds (the table holding
\* records) leaves every archive entry as it was and raises nothing.
C1_AtMostOnceWrite ==
    [][ NoDuplicateKeys' /\ (ReSave => (archive' = archive /\ raised' = "none")) ]_vars

\* save() has just skipped a video whose stored rows differ from the table's
C1_Witness ==
    /\ last = "save"
    /\ raised = "none"
    /\ scope = "in"
    /\ save_file # None
    /\ video_id # None
    /\ ~detections_pred.none
    /\ PklName(video_id) \in namelist(archive[save_file])
    /\ getentry(archive[save_file], PklName(video_id)).rows = {[video_id |-> video_id, gen |-> 1]}
    /\ { r \in detections_pred.rows : r.video_id = video_id } = {[video_id |-> video_id, gen |-> 2]}

----
(* The in-memory table *)

RowsOf(df, v) == { r \in df.rows : r.video_id = v }

\* update(R') is called with video a selected, R' being records of a, on a table
\* that holds rows of a and of another video
UpdateOfTwo(a, R) ==
    /\ update(R)
    /\ video_id = a
    /\ ~detections_pred.none
    /\ RowsOf(detections_pred, a) # {}
    /\ \E b \in Videos \ {a} : RowsOf(detections_pred, b) # {}

\* C2: on a table holding rows of videos A and B, with A the current video,
\* update(R') leaves the rows of B as they were and makes the rows of A exactly
\* the rows of R'.
C2_ReplaceByKey ==
    [][ \A a \in Videos : \A c \in BatchColumns :
          UpdateOfTwo(a, Batch(c, a)) =>
            /\ RowsOf(detections_pred', a) = Batch(c, a).rows
            /\ \A b \in Videos \ {a} :
                 RowsOf(detections_pred', b) = RowsOf(detections_pred, b) ]_vars

\* ground truth gave the table rows of A and B; update() then replaced those of A
C2_Witness ==
    /\ last = "update"
    /\ video_id = "A"
    /\ load_from_groundtruth
    /\ detections_pred.rows = {[video_id |-> "B", gen |-> 0], [video_id |-> "A", gen |-> 1]}

\* C3, as stated: the table never holds rows of one video_id that two different
\* update()/load() calls supplied.
C3_OneGeneration ==
    \A r1, r2 \in detections_pred.rows :
        r1.video_id = r2.video_id => r1.gen = r2.gen
----
(* Round trip through the archive *)

\* load() has just run in the with-block of an object without stages that only
\* reads an archive, which holds a summary and an entry of the selected video
FreshLoad ==
    /\ constructed
    /\ last = "load"
    /\ scope = "in"
    /\ modules = <<>>
    /\ load_file # None
    /\ save_file = None
    /\ video_id # None
    /\ SummaryName \in namelist(archive[load_file])
    /\ PklName(video_id) \in namelist(archive[load_file])
    /\ getentry(archive[load_file], PklName(video_id)).rows # {}

\* C6, as stated: the records save() stored for a video come back from load() of a
\* fresh object as the stored rows projected onto the columns of summary.json;
\* load() of an object without load path returns an empty set.
C6_RoundTrip ==
    /\ FreshLoad =>
         /\ raised = "none"
         /\ ret = DF(getentry(archive[load_file], SummaryName).columns,
                     getentry(archive[load_file], PklName(video_id)).rows)
    /\ (constructed /\ last = "load" /\ load_file = None /\ video_id # None) =>
         (raised = "none" /\ ret = EmptyDF)

----
(* Forget columns *)

\* C7: a forget-column present in the table inside the with-block stays in the table
\* up to __exit__, and no forget-column is in the table right after __exit__.
C7_ForgetPurge ==
    [][ /\ \A z \in forget_columns :
             (scope = "in" /\ scope' = "in" /\ z \in detections_pred.columns)
                 => z \in detections_pred'.columns
        /\ (last' = "__exit__" /\ raised' = "none")
                 => detections_pred'.columns \cap forget_columns' = {} ]_vars

\* __exit__ has dropped z from a table whose rows were saved with z
C7_Witness ==
    /\ last = "__exit__"
    /\ raised = "none"
    /\ "z" \in forget_columns
    /\ ~detections_pred.none
    /\ detections_pred.rows # {}
    /\ "z" \notin detections_pred.columns
    /\ \E i \in 1..Len(archive["f1"].entries) :
          /\ "z" \in archive["f1"].entries[i].columns
          /\ archive["f1"].entries[i].rows # {}
          /\ archive["f1"].entries[i].rows \subseteq detections_pred.rows

\* C8, as stated: no forget-column of the object's stages is among the columns of
\* summary.json or of a per-video entry of the save archive.
C8_ForgetNotPersisted ==
    (constructed /\ save_file # None /\ last \in {"save", "on_video_loop_end"}) =>
        \A i \in 1..Len(archive[save_file].entries) :
            archive[save_file].entries[i].columns \cap forget_columns = {}

----
(* Archive handles *)

\* C9, as stated: with load_file and save_file the same file, both channels are one
\* handle opened in append mode and the file is open through no other handle.
C9_OneHandle ==
    (constructed /\ SameFile /\ scope = "in") =>
        /\ zf.load = zf.save
        /\ \E h \in openHandles : h.var = zf.load /\ h.mode = "a" /\ h.held
        /\ \A h \in openHandles : h.file = load_file => h.var = zf.load

----
(* The three sources of load *)

\* C11: when an import source (a json_file directory with at least one matching
\* file) is configured, a TrackerState can be constructed, whatever the load path,
\* the ground-truth flag and the stage list are, and load() then serves the imported
\* rows of the selected video: it raises nothing.
C11_ImportFirst ==
    [][ /\ (\E lf \in {None, "f2"}, gt \in BOOLEAN, mods \in SourceModuleLists :
                init(lf, "anns", None, gt, mods))
           => (constructed' /\ json_file' = "anns")
        /\ (Load /\ json_file # None /\ video_id # None) => raised' = "none" ]_vars

----
(* Preconditions of save and load *)

\* a call that breaks a precondition: no video selected, or save() on no table
SaveBreach == Save /\ (video_id = None \/ detections_pred.none)

LoadBreach == Load /\ video_id = None

\* the call failed on an assertion and changed neither the table nor the archives
Fatal == raised' = "AssertionError" /\ UNCHANGED <<detections_pred, archive>>

\* C12, as stated: save() or load() invoked while no video is selected, and save()
\* invoked while the table is None, always fail with an assertion error and leave the
\* table and the archive unchanged, in every configuration of load path and save path,
\* save_file = None included.
C12_AsStated ==
    [][ (SaveBreach \/ LoadBreach) => Fatal ]_vars

\* C12, amended: the same in every configuration with a save path for save() and in
\* every configuration for load(); with save_file = None save() returns at once,
\* raises nothing and changes nothing.
C12_PreconditionsFatal ==
    [][ /\ (SaveBreach /\ save_file # None) => Fatal
        /\ LoadBreach => Fatal
        /\ (SaveBreach /\ save_file = None) =>
               (raised' = "none" /\ UNCHANGED <<detections_pred, archive>>) ]_vars

\* save() inside a session with a video selected and no table yet
C12_Witness ==
    /\ last = "save"
    /\ raised = "AssertionError"
    /\ save_file # None
    /\ scope = "in"
    /\ video_id # None
    /\ detections_pred.none

----
(* Archives without a summary, archives without entries *)

\* C13: constructing a TrackerState with a load path whose container lacks
\* summary.json, or lacks any entries at all, does not fail: without summary.json the
\* persisted column set is the column set of the first listed entry, and without any
\* entry the construction still completes with a resolved load_columns.
C13_SchemaFallback ==
    [][ \A lf \in Files : \A sf \in SaveFiles :
          (/\ init(lf, None, sf, FALSE, <<>>)
           /\ archive[lf].exists
           /\ SummaryName \notin namelist(archive[lf]))
          => /\ constructed'
             /\ load_file' = lf
             /\ {"image_id", "video_id"} \subseteq load_columns'
             /\ archive[lf].entries # <<>> =>
                    load_columns' = archive[lf].entries[1].columns
                                       \cup {"image_id", "video_id"} ]_vars

----
(* Ground-truth pass-through *)

\* C14: with ground-truth pass-through configured and no import source, load() for
\* a selected video V returns the ground-truth rows of V restricted to load_columns,
\* in every reachable state: also after earlier update() calls and session exits.
C14_GroundTruth ==
    (constructed /\ load_from_groundtruth /\ json_file = None
       /\ last = "load" /\ video_id # None)
    => /\ raised = "none"
       /\ ret = DF(load_columns, { r \in detections_gt.rows : r.video_id = video_id })

----
(* Reading an archive *)

\* load() reaches the archive: no import source, no ground truth, a video selected
\* and the load channel open
ArchiveLoad ==
    /\ Load
    /\ json_file = None
    /\ ~load_from_groundtruth
    /\ load_file # None
    /\ video_id # None
    /\ ~zf.none
    /\ zf.load # None

Stored(v) == PklName(v) \in namelist(archive[load_file])

\* C15: when load() reaches the archive and the archive holds an entry for the
\* selected video V, load() succeeds, replaces the rows of V in the table by the stored
\* rows, leaves the rows of the other videos as they are, and returns the stored rows
\* restricted to exactly load_columns; for every stage list, those with input columns
\* that the archive does not store included.
C15_ArchiveHit ==
    [][ (ArchiveLoad /\ Stored(video_id)) =>
          LET e == getentry(archive[load_file], PklName(video_id))
          IN  /\ raised' = "none"
              /\ ret' = DF(load_columns, e.rows)
              /\ { r \in detections_pred'.rows : r.video_id = video_id } = e.rows
              /\ { r \in detections_pred'.rows : r.video_id # video_id }
                   = { r \in detections_pred.rows : r.video_id # video_id } ]_vars

\* load() returned an empty record set, raised nothing and left the table and every
\* archive entry as they were
Absent ==
    /\ raised' = "none"
    /\ ~ret'.none
    /\ ret'.rows = {}
    /\ UNCHANGED <<detections_pred, archive>>

\* C16, as stated: with a video selected and the session entered, load() for a
\* video whose key is missing from the load archive, or without a load path, returns
\* an empty record set without raising and leaves the table and every archive entry
\* unchanged.
C16_AsStated ==
    [][ (/\ Load
         /\ video_id # None
         /\ scope = "in"
         /\ (load_file = None \/ ~Stored(video_id)))
        => Absent ]_vars

\* C16, amended: the same when neither an import source nor ground-truth
\* pass-through is configured, the two sources that load() serves before it looks at
\* the load path.
C16_ExpectedAbsence ==
    [][ (/\ Load
         /\ json_file = None
         /\ ~load_from_groundtruth
         /\ video_id # None
         /\ scope = "in"
         /\ (load_file = None \/ ~Stored(video_id)))
        => Absent ]_vars

\* video B is asked of the earlier run's archive, which holds video A only, by an
\* object whose table holds rows
C16_Witness ==
    /\ last = "load"
    /\ raised = "none"
    /\ scope = "in"
    /\ load_file = "f2"
    /\ video_id = "B"
    /\ ~Stored("B")
    /\ Stored("A")
    /\ ret = EmptyDF
    /\ ~detections_pred.none
    /\ detections_pred.rows # {}

----
(* How often forget-columns are dropped *)

\* C17, as stated: over a run of one object through several per-video scopes
\* (select V, __enter__, ..., __exit__ for each video) the drop of forget-columns
\* happens once, at the exit of the full session, and not at every video scope exit:
\* no second __exit__ of the object removes a column.
C17_AsStated == drops <= 1

\* C17, amended: the drop happens at every __exit__ that leaves a scope, once per
\* video scope: right after it the table has its former columns less the
\* forget-columns, and its former rows.
C17_DropAtEveryExit ==
    [][ (Exit /\ ~zf.none /\ ~detections_pred.none) =>
           /\ detections_pred'.columns = detections_pred.columns \ forget_columns
           /\ detections_pred'.rows = detections_pred.rows
           /\ (detections_pred.columns \cap forget_columns # {}) => drops' > 0 ]_vars

\* the scopes of two videos have each ended with a drop
C17_Witness ==
    /\ constructed
    /\ last = "__exit__"
    /\ drops = 2
    /\ "z" \in forget_columns
    /\ \A v \in Videos : \E r \in detections_pred.rows : r.video_id = v /\ r.gen > 0

----
(* The end-of-video hook *)

\* C18: on_video_loop_end(detections) performs update(detections), then save(): with
\* a save path, a video V selected and no entry for V in the save archive, the entry
\* the hook writes inside a session has the columns of the table after the update and
\* the rows of detections, which are the table's rows of V after the update, not those
\* it held before; outside a session the hook writes nothing.
C18_UpdateThenSave ==
    [][ \A c \in BatchColumns : \A v \in Videos :
          (/\ on_video_loop_end(Batch(c, v))
           /\ save_file # None
           /\ video_id = v
           /\ PklName(v) \notin namelist(archive[save_file]))
          => IF scope = "in"
             THEN /\ raised' = "none"
                  /\ PklName(v) \in namelist(archive'[save_file])
                  /\ LET e == getentry(archive'[save_file], PklName(v))
                     IN  /\ e.rows = Batch(c, v).rows
                         /\ e.rows = { r \in detections_pred'.rows : r.video_id = v }
                         /\ e.columns = detections_pred'.columns
             ELSE UNCHANGED archive ]_vars

\* the hook has written the second batch of video A; the first batch, which the
\* table held for A before the hook, is in neither the table nor the archive
C18_Witness ==
    /\ last = "on_video_loop_end"
    /\ raised = "none"
    /\ save_file = "f1"
    /\ video_id = "A"
    /\ nextGen = 3
    /\ detections_pred.rows = {[video_id |-> "A", gen |-> 2]}
    /\ PklName("A") \in namelist(archive["f1"])
    /\ getentry(archive["f1"], PklName("A")).rows = {[video_id |-> "A", gen |-> 2]}

----
(* summary.json *)

\* the positions of summary.json in the directory of archive z
Summaries(z) == { i \in 1..Len(z.entries) : z.entries[i].name = SummaryName }

\* the positions of the per-video entries
PerVideo(z) == { i \in 1..Len(z.entries) : z.entries[i].name # SummaryName }

\* C19: in every reachable state the save archive holds at most one summary.json;
\* save() writes it, from the columns of the table it saves, only when the archive has
\* none and before the first per-video entry, so an archive with a per-video entry
\* written by save() has summary.json, in front of every such entry and with the
\* columns of the first of them; a save() skipped because the key exists writes no
\* summary.
C19_LazySummary ==
    [][ LET z == archive'["f1"]
        IN  /\ Cardinality(Summaries(z)) <= 1
            /\ PerVideo(z) # {} =>
                  /\ Summaries(z) = {1}
                  /\ z.entries[1].columns = z.entries[2].columns
            /\ \A i \in Summaries(archive["f1"]) : z.entries[i] = archive["f1"].entries[i]
            /\ ((Save \/ OnVideoLoopEnd) /\ save_file # None /\ video_id # None
                   /\ PklName(video_id) \in namelist(archive[save_file]))
                  => UNCHANGED archive
            /\ (Save /\ save_file # None /\ raised' = "none"
                   /\ Summaries(archive[save_file]) = {})
                  => /\ Summaries(archive'[save_file]) = {1}
                     /\ archive'[save_file].entries[1].columns = detections_pred.columns
      ]_vars

\* summary.json was written once, with the first of two entries; the table of the
\* last save() has other columns
C19_Witness ==
    /\ last \in {"save", "on_video_loop_end"}
    /\ raised = "none"
    /\ Summaries(archive["f1"]) = {1}
    /\ Cardinality(PerVideo(archive["f1"])) = 2
    /\ ~detections_pred.none
    /\ detections_pred.columns # archive["f1"].entries[1].columns

\* C20: after any sequence of update, save and session exits over several videos,
\* every per-video entry of a save archive has exactly the column set listed in that
\* archive's summary.json.
C20_UniformSchema ==
    LET z == archive["f1"]
    IN  \A i \in PerVideo(z) : \A j \in Summaries(z) :
            z.entries[i].columns = z.entries[j].columns
====
